---- MODULE Spec2Model ----
(***************************************************************************)
(* Chat subsystem of socila-react-native: the send-message and fetch-      *)
(* history request handlers of routes/chatRoutes.js (both versions kept in *)
(* the repository) running concurrently against the Chat and Message       *)
(* collections, and the realtime publish to the conversation room.         *)
(* Every await of a handler is a scheduling point: one action per store    *)
(* operation, followed by the synchronous code up to the next await.       *)
(* The handler invocations form a bag: two invocations in the same state   *)
(* are interchangeable.                                                    *)
(* The socket.io server of server.js (handshake middleware, join-chat and  *)
(* leave-chat listeners) runs next to the send handler in SpecRT.          *)
(* SpecQ runs the read handlers (list, search, get) over stored            *)
(* conversations, SpecSrv the start of server.js and its readiness guard   *)
(* of /api/chats, SpecPost the pre-save hook of models/Post.js.            *)
(***************************************************************************)
EXTENDS Integers, Sequences, FiniteSets, Bags, TLC

\* ---------------------------------------------------------------- bounds
MaxReq == 2            \* number of HTTP requests issued in one run

\* ------------------------------------------------------------- constants
HistoryLimit == 50     \* .limit(50) of the history query

Users    == {"A", "B", "X"}
ChatIds  == {"c1", "c2", "c9"}          \* "c9" names no stored conversation
Variants == {"v1", "v2"}                \* the two versions of chatRoutes.js

NoMsg     == 0
NoFile    == "nofile"
NoContent == "nocontent"
NoMedia   == "nomedia"
NoChat    == [participants |-> <<>>, lastMessage |-> NoMsg, unreadCounts |-> <<>>]
Files     == {NoFile, "image/png", "video/mp4"}   \* accepted by the fileFilter
Contents  == {NoContent, "hi"}

MaxSock   == 2                          \* client connections in one run
MaxPub    == 1                          \* requests next to the realtime server or the guard
SocketIds == 1..MaxSock
NoToken   == "notoken"
NoUser    == "nouser"
NoEvent   == <<>>
Tokens    == {NoToken, "forged", "jwtX"}  \* absent, unverifiable, signed for X
Rooms     == {"c1", "c2"}               \* the rooms clients ask to join

MaxQuery  == 1                          \* list, search and get requests in one run
NoParam   == "noparam"                  \* a request parameter that was not sent
Null      == "null"
\* req.query.q of the searches: letters only, so that the regular
\* expression built from it is a plain case-insensitive substring test
Queries   == {<<"a", "l">>, <<"B", "O">>, <<"z">>}
QueryIds  == {NoParam, "c2"}            \* req.query.id of GET /:id

DefaultRetries == 5    \* connectWithRetry(retries = 5, ...)
MediaLimit     == 5    \* this.media.length > 5 of the Post pre-save hook

VARIABLES variant, chats, messages, reqs, events, socks, server, post
vars == <<variant, chats, messages, reqs, events, socks, server, post>>

\* ------------------------------------------------- the server process
\* server.js once the database is connected and the HTTP server listens.
\* pc: where startServer stands; i: the loop variable of connectWithRetry;
\* attempts: calls of mongoose.connect so far; readyState:
\* mongoose.connection.readyState (0 disconnected, 1 connected,
\* 2 connecting); returned: the value connectWithRetry returned.
ServerUp ==
    [pc |-> "listening", i |-> 0, attempts |-> 1, retries |-> DefaultRetries,
     readyState |-> 1, returned |-> "true", listening |-> TRUE,
     production |-> FALSE]

\* a guard that lets every request through
Ready_Always(srv) == TRUE

\* mongoose.connection.readyState === 1 of the guard of /api/chats
Ready(srv) == srv.readyState = 1

\* the request reaches the router: the server listens and the guard calls
\* next()
PassesGuard == server.listening /\ Ready(server)

\* the post no save is running on
NoPost == [version |-> 0, text |-> FALSE, media |-> 0, pc |-> "idle",
           calls |-> <<>>, saved |-> FALSE]

\* ----------------------------------------------------------- sequences
Range(s) == {s[i] : i \in DOMAIN s}

\* the n largest elements of a finite set of integers
Latest(S, n) == {i \in S : Cardinality({j \in S : j > i}) < n}

\* --------------------------------------------------- conversation store
\* Conversations as created: one unread entry per participant, count 0,
\* no last message.
NewChat(ps) ==
    [participants |-> ps,
     lastMessage  |-> NoMsg,
     unreadCounts |-> [i \in DOMAIN ps |-> [user |-> ps[i], count |-> 0]]]

InitialChats == [c \in {"c1", "c2"} |->
                    IF c = "c1" THEN NewChat(<<"A", "B">>)
                                ELSE NewChat(<<"A", "X">>)]

\* a lookup that ignores the id when nothing matches
FindChatById_Any(c) == IF c \in DOMAIN chats THEN chats[c] ELSE chats["c1"]

\* Chat.findById(id): the stored document or null
FindChatById(c) == IF c \in DOMAIN chats THEN chats[c] ELSE NoChat

\* a membership test that never refuses
IsParticipant_Always(chat, u) == TRUE

\* chat.participants.includes(req.user._id)
IsParticipant(chat, u) == u \in Range(chat.participants)

\* chat.unreadCounts.find(uc => uc.user == u): its count, 0 when absent
UnreadCount(chat, u) ==
    LET hits == {i \in DOMAIN chat.unreadCounts : chat.unreadCounts[i].user = u}
    IN  IF hits = {} THEN 0
        ELSE chat.unreadCounts[CHOOSE i \in hits : \A j \in hits : i <= j].count

\* the reset without the 'unreadCounts.user' filter: every entry is zeroed
ResetUnread_All(uc, u) == [i \in DOMAIN uc |-> [uc[i] EXCEPT !.count = 0]]

\* the first-match positional update  { $set: { 'unreadCounts.$.count': 0 } }
\* filtered by 'unreadCounts.user': u  (no matching element: nothing changes)
ResetUnread(uc, u) ==
    [i \in DOMAIN uc |->
        IF uc[i].user = u /\ \A j \in 1..(i - 1) : uc[j].user # u
        THEN [uc[i] EXCEPT !.count = 0]
        ELSE uc[i]]

\* the increment as a $push: an entry is added for the sender
IncrementUnread_Push(uc, sender) ==
    Append([i \in DOMAIN uc |->
               IF uc[i].user # sender
               THEN [uc[i] EXCEPT !.count = @ + 1]
               ELSE uc[i]],
           [user |-> sender, count |-> 0])

\* the increment without arrayFilters: the sender's entry is raised too
IncrementUnread_All(uc, sender) ==
    [i \in DOMAIN uc |-> [uc[i] EXCEPT !.count = @ + 1]]

\* { $inc: { 'unreadCounts.$[elem].count': 1 } } with
\* arrayFilters [{ 'elem.user': { $ne: sender } }]
IncrementUnread(uc, sender) ==
    [i \in DOMAIN uc |->
        IF uc[i].user # sender
        THEN [uc[i] EXCEPT !.count = @ + 1]
        ELSE uc[i]]

\* the update without the lastMessage field
TouchLastMessage_Forgotten(chat, mid) == chat

\* { lastMessage: message._id }
TouchLastMessage(chat, mid) == [chat EXCEPT !.lastMessage = mid]

\* ------------------------------------------------------- message store
NoData == [chat |-> "", sender |-> "", type |-> "none", mediaUrl |-> NoMedia,
           content |-> NoContent, readBy |-> <<>>]

\* type: req.file ? (mimetype.startsWith('image/') ? 'image' : 'video') : 'text'
MessageType(file) ==
    IF file = NoFile THEN "text"
    ELSE IF file = "image/png" THEN "image" ELSE "video"

\* messageData that copies req.body.content whether or not a file came
MessageData_KeepContent(c, u, file, content) ==
    [chat     |-> c,
     sender   |-> u,
     type     |-> MessageType(file),
     mediaUrl |-> IF file # NoFile THEN "/uploads/f" ELSE NoMedia,
     content  |-> content,
     readBy   |-> <<u>>]

\* messageData without the sender among the readers
MessageData_NoReaders(c, u, file, content) ==
    [chat     |-> c,
     sender   |-> u,
     type     |-> MessageType(file),
     mediaUrl |-> IF file # NoFile THEN "/uploads/f" ELSE NoMedia,
     content  |-> IF file # NoFile THEN NoContent ELSE content,
     readBy   |-> <<>>]

\* messageData as built by the send handler
MessageData(c, u, file, content) ==
    [chat     |-> c,
     sender   |-> u,
     type     |-> MessageType(file),
     mediaUrl |-> IF file # NoFile THEN "/uploads/f" ELSE NoMedia,
     content  |-> IF file # NoFile THEN NoContent ELSE content,
     readBy   |-> <<u>>]

\* Message schema: content required iff type = text, media reference
\* required iff type is image or video
MessageValid(d) ==
    /\ d.type = "text" => d.content # NoContent
    /\ d.type \in {"image", "video"} => d.mediaUrl # NoMedia

\* ids of the stored messages of conversation c
MessagesOf(c) == {i \in DOMAIN messages : messages[i].chat = c}

\* Message.find({chat}).sort('-createdAt').limit(50): the documents as read
FindMessages(c) ==
    [i \in Latest(MessagesOf(c), HistoryLimit) |-> messages[i].readBy]

\* the update with $set in place of $addToSet: the reader replaces the
\* readers recorded so far
MarkReadByOthers_Overwrite(ms, c, u) ==
    [i \in DOMAIN ms |->
        IF ms[i].chat = c /\ ms[i].sender # u /\ u \notin Range(ms[i].readBy)
        THEN [ms[i] EXCEPT !.readBy = <<u>>]
        ELSE ms[i]]

\* the update with $push and without the readBy filter: the reader is
\* appended on every invocation
MarkReadByOthers_Push(ms, c, u) ==
    [i \in DOMAIN ms |->
        IF ms[i].chat = c /\ ms[i].sender # u
        THEN [ms[i] EXCEPT !.readBy = Append(@, u)]
        ELSE ms[i]]

\* { $addToSet: { readBy: u } } on the readBy array of one document
AddToSet(arr, u) == IF u \in Range(arr) THEN arr ELSE Append(arr, u)

\* Message.updateMany({chat, sender: {$ne: u}, readBy: {$ne: u}},
\*                    {$addToSet: {readBy: u}})
MarkReadByOthers(ms, c, u) ==
    [i \in DOMAIN ms |->
        IF ms[i].chat = c /\ ms[i].sender # u /\ u \notin Range(ms[i].readBy)
        THEN [ms[i] EXCEPT !.readBy = AddToSet(@, u)]
        ELSE ms[i]]

\* --------------------------------------------------- realtime sockets
\* One record per client connection attempt.  state: how far the
\* connection got; token: socket.handshake.auth.token; userId:
\* socket.userId; handlers: the events the server listens to on the socket;
\* rooms: the rooms the socket is in; pending: the event the client has
\* emitted and the server has not dispatched yet; received: the ids of the
\* 'message' events delivered to the client, in order.
NoSocket ==
    [state |-> "none", token |-> NoToken, userId |-> NoUser, handlers |-> {},
     rooms |-> {}, pending |-> NoEvent, received |-> <<>>]

\* jwt.verify(token, secret): the decoded userId, or NoUser when it throws
JwtVerify(token) ==
    IF token = "jwtX" THEN "X" ELSE NoUser

\* a middleware that lets every handshake through
SocketAuth_Open(token) == TRUE

\* the io.use middleware: next() is called without an error
SocketAuth(token) == token # NoToken /\ JwtVerify(token) # NoUser

\* the events io.on('connection') registers listeners for
ConnectionHandlers == {"join-chat", "leave-chat", "error", "disconnect"}

\* a join that leaves the room when the socket is already in it
SocketJoin_Toggle(rooms, c) == IF c \in rooms THEN rooms \ {c} ELSE rooms \cup {c}

\* socket.join(chatId)
SocketJoin(rooms, c) == rooms \cup {c}

\* socket.leave(chatId)
SocketLeave(rooms, c) == rooms \ {c}

\* io.emit: the event goes to every connected socket
EmitToRoom_Broadcast(ss, room, mid) ==
    [s \in DOMAIN ss |->
        IF ss[s].state = "connected"
        THEN [ss[s] EXCEPT !.received = Append(@, mid)]
        ELSE ss[s]]

\* io.to(room).emit('message', populatedMessage): one event to every
\* socket that is in the room
EmitToRoom(ss, room, mid) ==
    [s \in DOMAIN ss |->
        IF room \in ss[s].rooms
        THEN [ss[s] EXCEPT !.received = Append(@, mid)]
        ELSE ss[s]]

\* ------------------------------------------------------ error handling
\* handleError of the later version; the earlier version's catch blocks
\* answer 500 whatever the error
HandleError(v, err) ==
    IF v = "v1" THEN 500
    ELSE IF err = "MulterError" THEN 400
    ELSE IF err = "ValidationError" THEN 400
    ELSE 500

\* ------------------------------------------------------------ requests
\* One record per handler invocation.  pc: the await the handler is
\* suspended at; at: the await (or check) at which it answered; status: the
\* HTTP status answered (0: none yet); data: messageData, built before
\* Message.create is called and not read after it; msg: message._id;
\* result: the documents read by Message.find.
Request(k, u, c) ==
    [kind |-> k, user |-> u, chat |-> c, data |-> NoData, pc |-> "start",
     at |-> "", status |-> 0, msg |-> NoMsg, result |-> <<>>]

Reqs == BagToSet(reqs)

\* the synchronous checks of the send handler after Chat.findById resolved:
\* 0 when the handler goes on to Message.create
SendCheck(v, chat, u, file, content) ==
    IF chat = NoChat THEN 404
    ELSE IF ~IsParticipant(chat, u) THEN 403
    ELSE IF v = "v2" /\ file = NoFile /\ content = NoContent THEN 400
    ELSE 0

\* the checks of the history handler without the participant test
FetchCheck_Open(chat, u) == IF chat = NoChat THEN 404 ELSE 0

\* the checks of the history handler after Chat.findById resolved
FetchCheck(chat, u) ==
    IF chat = NoChat THEN 404
    ELSE IF ~IsParticipant(chat, u) THEN 403
    ELSE 0

\* res.status(st).json(...): the handler is over
Answered(q, st) ==
    [q EXCEPT !.pc = "done", !.at = q.pc, !.status = st, !.data = NoData]

\* the invocation q goes on as n
Replace(q, n) == (reqs (-) SetToBag({q})) (+) SetToBag({n})

\* a further request may arrive
CanStart == BagCardinality(reqs) < MaxReq /\ PassesGuard

\* ----------------------------------------------- POST /:id/messages
\* Chat.findById resolves; the checks run; messageData is built and
\* Message.create is issued
SendStart ==
    /\ CanStart
    /\ \E u \in Users, c \in ChatIds, f \in Files, t \in Contents :
         LET st == SendCheck(variant, FindChatById(c), u, f, t)
             q  == Request("send", u, c)
         IN  reqs' = reqs (+) SetToBag({
                        IF st = 0
                        THEN [q EXCEPT !.pc = "create",
                                       !.data = MessageData(c, u, f, t)]
                        ELSE [q EXCEPT !.pc = "done", !.at = "check",
                                       !.status = st]})
    /\ UNCHANGED <<server, post, socks, variant, chats, messages, events>>

\* Message.create(messageData) resolves: the document is stored, or the
\* schema rejects it and the catch block answers
SendCreate(q) ==
    /\ q.pc = "create"
    /\ IF MessageValid(q.data)
       THEN /\ messages' = Append(messages, q.data)
            /\ reqs' = Replace(q, [q EXCEPT !.pc = "findmsg",
                                            !.msg = Len(messages) + 1,
                                            !.data = NoData])
       ELSE /\ messages' = messages
            /\ reqs' = Replace(q, Answered(q, HandleError(variant, "ValidationError")))
    /\ UNCHANGED <<server, post, socks, variant, chats, events>>

\* the read-back that already emits to the room, before the conversation
\* is updated
SendFindMessage_Emits(q) ==
    /\ q.pc = "findmsg"
    /\ reqs' = Replace(q, [q EXCEPT !.pc = "update"])
    /\ events' = events \cup {[room |-> q.chat, msg |-> q.msg]}
    /\ UNCHANGED <<server, post, socks, variant, chats, messages>>

\* Message.findById(message._id).populate('sender') resolves
SendFindMessage(q) ==
    /\ q.pc = "findmsg"
    /\ reqs' = Replace(q, [q EXCEPT !.pc = "update"])
    /\ UNCHANGED <<server, post, socks, variant, chats, messages, events>>

\* Chat.updateOne: last message pointer and unread increments, one atomic
\* document update
SendUpdateChat(q) ==
    /\ q.pc = "update"
    /\ chats' = [chats EXCEPT ![q.chat] =
                    [TouchLastMessage(@, q.msg) EXCEPT
                        !.unreadCounts = IncrementUnread(@, q.user)]]
    /\ reqs' = Replace(q, [q EXCEPT !.pc = "emit"])
    /\ UNCHANGED <<server, post, socks, variant, messages, events>>

\* io.to(chatId).emit('message', populatedMessage); res.status(201)
SendEmit(q) ==
    /\ q.pc = "emit"
    /\ events' = events \cup {[room |-> q.chat, msg |-> q.msg]}
    /\ socks' = EmitToRoom(socks, q.chat, q.msg)
    /\ reqs' = Replace(q, Answered(q, 201))
    /\ UNCHANGED <<server, post, variant, chats, messages>>

\* the emit throws inside the try block: the catch block answers
SendEmitFail(q) ==
    /\ q.pc = "emit"
    /\ reqs' = Replace(q, Answered(q, HandleError(variant, "Error")))
    /\ UNCHANGED <<server, post, socks, variant, chats, messages, events>>

\* ------------------------------------------------ GET /:id/messages
\* Chat.findById resolves; the checks run; Message.find is issued
FetchStart ==
    /\ CanStart
    /\ \E u \in Users, c \in ChatIds :
         LET st == FetchCheck(FindChatById(c), u)
             q  == Request("fetch", u, c)
         IN  reqs' = reqs (+) SetToBag({
                        IF st = 0
                        THEN [q EXCEPT !.pc = "find"]
                        ELSE [q EXCEPT !.pc = "done", !.at = "check",
                                       !.status = st]})
    /\ UNCHANGED <<server, post, socks, variant, chats, messages, events>>

\* Message.find(...) resolves: the documents of the response are read
FetchFind(q) ==
    /\ q.pc = "find"
    /\ reqs' = Replace(q, [q EXCEPT !.pc = "mark",
                                    !.result = FindMessages(q.chat)])
    /\ UNCHANGED <<server, post, socks, variant, chats, messages, events>>

\* Message.updateMany(... $addToSet readBy) resolves
FetchMarkRead(q) ==
    /\ q.pc = "mark"
    /\ messages' = MarkReadByOthers(messages, q.chat, q.user)
    /\ reqs' = Replace(q, [q EXCEPT !.pc = "reset"])
    /\ UNCHANGED <<server, post, socks, variant, chats, events>>

\* Chat.updateOne(... $set count 0) resolves
FetchResetUnread(q) ==
    /\ q.pc = "reset"
    /\ chats' = [chats EXCEPT ![q.chat].unreadCounts = ResetUnread(@, q.user)]
    /\ reqs' = Replace(q, [q EXCEPT !.pc = "respond"])
    /\ UNCHANGED <<server, post, socks, variant, messages, events>>

\* res.json({ messages })
FetchRespond(q) ==
    /\ q.pc = "respond"
    /\ reqs' = Replace(q, Answered(q, 200))
    /\ UNCHANGED <<server, post, socks, variant, chats, messages, events>>

\* ------------------------------------------------- storage failures
\* the pending store operation rejects: nothing is written and the catch
\* block of the handler answers
AwaitingStore == {"create", "findmsg", "update", "find", "mark", "reset"}

\* a failure that leaves the pending write applied: the conversation is
\* updated although Message.create rejected, and the stored message is
\* removed again when the conversation update rejected
StoreFail_Partial(q) ==
    /\ q.pc \in AwaitingStore
    /\ reqs' = Replace(q, Answered(q, HandleError(variant, "StorageError")))
    /\ chats' = IF q.pc = "create"
                THEN [chats EXCEPT ![q.chat].unreadCounts =
                                       IncrementUnread(@, q.user)]
                ELSE chats
    /\ messages' = IF q.pc = "update"
                   THEN SubSeq(messages, 1, q.msg - 1)
                   ELSE messages
    /\ UNCHANGED <<server, post, socks, variant, events>>

StoreFail(q) ==
    /\ q.pc \in AwaitingStore
    /\ reqs' = Replace(q, Answered(q, HandleError(variant, "StorageError")))
    /\ UNCHANGED <<server, post, socks, variant, chats, messages, events>>

\* the first Chat.findById of a handler rejects
LookupFail ==
    /\ CanStart
    /\ \E k \in {"send", "fetch"}, u \in Users, c \in ChatIds :
         reqs' = reqs (+) SetToBag({
                    [Request(k, u, c) EXCEPT
                        !.pc = "done", !.at = "lookup",
                        !.status = HandleError(variant, "StorageError")]})
    /\ UNCHANGED <<server, post, socks, variant, chats, messages, events>>

\* ------------------------------------------------- realtime server
\* A client connects: the io.use middleware reads the handshake token and
\* calls next() or next(new Error('Authentication failed')).  Connections
\* are numbered in the order of their handshakes.
Handshake(s) ==
    /\ socks[s].state = "none"
    /\ \A r \in SocketIds : r < s => socks[r].state # "none"
    /\ \E t \in Tokens :
         socks' = [socks EXCEPT ![s] =
                     IF SocketAuth(t)
                     THEN [@ EXCEPT !.state = "authed", !.token = t,
                                    !.userId = JwtVerify(t)]
                     ELSE [@ EXCEPT !.state = "rejected", !.token = t]]
    /\ UNCHANGED <<server, post, variant, chats, messages, reqs, events>>

\* io.on('connection') runs for a socket the middleware let through and
\* registers the listeners
OnConnection(s) ==
    /\ socks[s].state = "authed"
    /\ socks' = [socks EXCEPT ![s].state = "connected",
                              ![s].handlers = ConnectionHandlers]
    /\ UNCHANGED <<server, post, variant, chats, messages, reqs, events>>

\* the client emits 'join-chat' or 'leave-chat' with a chat id; a client
\* whose handshake was refused may try as well.  The server takes client
\* events one at a time.
ClientEmit(s) ==
    /\ socks[s].state \in {"connected", "rejected"}
    /\ \A r \in SocketIds : socks[r].pending = NoEvent
    /\ \E ev \in {"join-chat", "leave-chat"}, c \in Rooms :
         socks' = [socks EXCEPT ![s].pending = <<ev, c>>]
    /\ UNCHANGED <<server, post, variant, chats, messages, reqs, events>>

\* a listener that joins the room only for a participant of the chat
OnJoinChat_Participants(s) ==
    /\ socks[s].pending # NoEvent
    /\ socks[s].pending[1] = "join-chat"
    /\ "join-chat" \in socks[s].handlers
    /\ socks' = [socks EXCEPT
                    ![s].rooms =
                        IF IsParticipant(FindChatById(socks[s].pending[2]),
                                         socks[s].userId)
                        THEN SocketJoin(@, socks[s].pending[2])
                        ELSE @,
                    ![s].pending = NoEvent]
    /\ UNCHANGED <<server, post, variant, chats, messages, reqs, events>>

\* socket.on('join-chat', chatId => socket.join(chatId))
OnJoinChat(s) ==
    /\ socks[s].pending # NoEvent
    /\ socks[s].pending[1] = "join-chat"
    /\ "join-chat" \in socks[s].handlers
    /\ socks' = [socks EXCEPT ![s].rooms = SocketJoin(@, socks[s].pending[2]),
                              ![s].pending = NoEvent]
    /\ UNCHANGED <<server, post, variant, chats, messages, reqs, events>>

\* socket.on('leave-chat', chatId => socket.leave(chatId))
OnLeaveChat(s) ==
    /\ socks[s].pending # NoEvent
    /\ socks[s].pending[1] = "leave-chat"
    /\ "leave-chat" \in socks[s].handlers
    /\ socks' = [socks EXCEPT ![s].rooms = SocketLeave(@, socks[s].pending[2]),
                              ![s].pending = NoEvent]
    /\ UNCHANGED <<server, post, variant, chats, messages, reqs, events>>

\* an event for which the socket has no listener goes nowhere
DropEvent(s) ==
    /\ socks[s].pending # NoEvent
    /\ socks[s].pending[1] \notin socks[s].handlers
    /\ socks' = [socks EXCEPT ![s].pending = NoEvent]
    /\ UNCHANGED <<server, post, variant, chats, messages, reqs, events>>

\* the connection closes: the socket leaves its rooms and its listeners
\* go with it; the 'disconnect' listener only logs
Disconnect(s) ==
    /\ socks[s].state = "connected"
    /\ socks' = [socks EXCEPT ![s].state = "disconnected", ![s].rooms = {},
                              ![s].handlers = {}, ![s].pending = NoEvent]
    /\ UNCHANGED <<server, post, variant, chats, messages, reqs, events>>

\* -------------------------------------------------- user directory
\* username and email of the users, as sequences of characters
Username(u) ==
    IF u = "A" THEN <<"A", "l">>
    ELSE IF u = "B" THEN <<"B", "o">>
    ELSE <<"X", "i">>

Email(u) ==
    IF u = "A" THEN <<"a", "l", "@", "m">>
    ELSE IF u = "B" THEN <<"b", "o", "@", "m">>
    ELSE <<"x", "i", "@", "m">>

\* the 'i' flag: letters compare by their lower case
Lower(ch) ==
    IF ch = "A" THEN "a"
    ELSE IF ch = "B" THEN "b"
    ELSE IF ch = "O" THEN "o"
    ELSE IF ch = "X" THEN "x"
    ELSE ch

LowerSeq(str) == [i \in DOMAIN str |-> Lower(str[i])]

IsSubstring(pat, str) ==
    \E k \in 0..(Len(str) - Len(pat)) : SubSeq(str, k + 1, k + Len(pat)) = pat

\* new RegExp(query, 'i') matched against a field, for a query of letters
RegExpTest(query, str) == IsSubstring(LowerSeq(query), LowerSeq(str))

\* match: { $or: [{ username: regex }, { email: regex }] }
MatchesUser(query, u) ==
    RegExpTest(query, Username(u)) \/ RegExpTest(query, Email(u))

\* populate({ path: 'participants', match }): a participant that does not
\* match is dropped from the array, or left in it as null, depending on the
\* version of the library
Populate(ps, query, retain) ==
    IF retain
    THEN [i \in DOMAIN ps |->
             IF MatchesUser(query, ps[i]) THEN ps[i] ELSE Null]
    ELSE SelectSeq(ps, LAMBDA u : MatchesUser(query, u))

\* chat.participants.some(p => p !== null)
SomeNotNull(ps) == \E i \in DOMAIN ps : ps[i] # Null

\* -------------------------------------------- GET /, /search, /:id
\* a find that returns every conversation
ChatsOf_All(u) == DOMAIN chats

\* Chat.find({ participants: req.user._id })
ChatsOf(u) == {c \in DOMAIN chats : IsParticipant(chats[c], u)}

\* .sort('-updatedAt')
SortByUpdatedAt(S) ==
    CHOOSE sq \in [1..Cardinality(S) -> S] :
        /\ Range(sq) = S
        /\ \A i, j \in DOMAIN sq :
              i < j => chats[sq[i]].updatedAt > chats[sq[j]].updatedAt

\* the response of GET /: the caller's conversations, newest first, each
\* with unreadCount
ListResponse(u) ==
    LET sq == SortByUpdatedAt(ChatsOf(u))
    IN  [i \in DOMAIN sq |->
            [id |-> sq[i], unreadCount |-> UnreadCount(chats[sq[i]], u)]]

\* the response of GET /search: the caller's conversations with populated
\* participants, those with no participant left filtered out
SearchResponse(u, query, retain) ==
    LET sq  == SortByUpdatedAt(ChatsOf(u))
        all == [i \in DOMAIN sq |->
                   [id |-> sq[i],
                    participants |->
                        Populate(chats[sq[i]].participants, query, retain)]]
    IN  SelectSeq(all, LAMBDA r : SomeNotNull(r.participants))

\* the id GET /:id looks up: req.params.id, req.query.id in the earlier
\* version
LookupId(v, pathId, queryId) == IF v = "v1" THEN queryId ELSE pathId

\* the answer of GET /:id once Chat.findById resolved
GetCheck(chat, u) ==
    IF chat = NoChat THEN 404
    ELSE IF ~IsParticipant(chat, u) THEN 403
    ELSE 200

\* One record per invocation of a read handler.  chat: req.params.id;
\* query: req.query.q or req.query.id; pc "find": the query is pending.
QueryRequest(k, u, c, qs) ==
    [kind |-> k, user |-> u, chat |-> c, query |-> qs, pc |-> "find",
     at |-> "", status |-> 0, result |-> <<>>]

CanQuery == BagCardinality(reqs) < MaxQuery /\ PassesGuard

QueryAnswered(q, st, res) ==
    [q EXCEPT !.pc = "done", !.at = q.pc, !.status = st, !.result = res]

\* GET /: Chat.find is issued
ListStart ==
    /\ CanQuery
    /\ \E u \in Users :
         reqs' = reqs (+) SetToBag({QueryRequest("list", u, NoParam, NoParam)})
    /\ UNCHANGED <<server, post, socks, variant, chats, messages, events>>

\* GET /search?q=...
SearchStart ==
    /\ CanQuery
    /\ \E u \in Users, qs \in Queries :
         reqs' = reqs (+) SetToBag({QueryRequest("search", u, NoParam, qs)})
    /\ UNCHANGED <<server, post, socks, variant, chats, messages, events>>

\* GET /:id, with or without ?id=...
GetStart ==
    /\ CanQuery
    /\ \E u \in Users, c \in ChatIds, id \in QueryIds :
         reqs' = reqs (+) SetToBag({QueryRequest("get", u, c, id)})
    /\ UNCHANGED <<server, post, socks, variant, chats, messages, events>>

\* the find of GET / resolves: res.json({ chats: chatsWithUnread })
ListResolve(q) ==
    /\ q.kind = "list" /\ q.pc = "find"
    /\ reqs' = Replace(q, QueryAnswered(q, 200, ListResponse(q.user)))
    /\ UNCHANGED <<server, post, socks, variant, chats, messages, events>>

\* the find of GET /search resolves: res.json({ chats: filteredChats })
SearchResolve(q) ==
    /\ q.kind = "search" /\ q.pc = "find"
    /\ \E retain \in BOOLEAN :
         reqs' = Replace(q, QueryAnswered(q, 200,
                              SearchResponse(q.user, q.query, retain)))
    /\ UNCHANGED <<server, post, socks, variant, chats, messages, events>>

\* Chat.findById of GET /:id resolves: 404, 403 or res.json({ chat })
GetResolve(q) ==
    /\ q.kind = "get" /\ q.pc = "find"
    /\ LET id == LookupId(variant, q.chat, q.query)
           st == GetCheck(FindChatById(id), q.user)
       IN  reqs' = Replace(q, QueryAnswered(q, st,
                                IF st = 200 THEN <<id>> ELSE <<>>))
    /\ UNCHANGED <<server, post, socks, variant, chats, messages, events>>

\* the pending find rejects: the catch block answers
QueryFail(q) ==
    /\ q.kind \in {"list", "search", "get"} /\ q.pc = "find"
    /\ reqs' = Replace(q, QueryAnswered(q, HandleError(variant, "StorageError"),
                                        <<>>))
    /\ UNCHANGED <<server, post, socks, variant, chats, messages, events>>

\* ---------------------------------------------------- specification
Init ==
    /\ variant \in Variants
    /\ chats = InitialChats
    /\ messages = <<>>
    /\ reqs = EmptyBag
    /\ events = {}
    /\ socks = [s \in SocketIds |-> NoSocket]
    /\ server = ServerUp
    /\ post = NoPost

Next ==
    \/ SendStart
    \/ FetchStart
    \/ LookupFail
    \/ \E q \in Reqs :
        \/ SendCreate(q)
        \/ SendFindMessage(q)
        \/ SendUpdateChat(q)
        \/ SendEmit(q)
        \/ SendEmitFail(q)
        \/ FetchFind(q)
        \/ FetchMarkRead(q)
        \/ FetchResetUnread(q)
        \/ FetchRespond(q)
        \/ StoreFail(q)

Spec == Init /\ [][Next]_vars

\* The realtime server next to the send handler: participant A sends text
\* into c1 while clients connect, join and leave c1 and c2, and disconnect.
RTSendStart ==
    /\ BagCardinality(reqs) < MaxPub
    /\ SendStart
    /\ reqs' = reqs (+) SetToBag({
                   [Request("send", "A", "c1") EXCEPT
                       !.pc = "create",
                       !.data = MessageData("c1", "A", NoFile, "hi")]})

NextRT ==
    \/ RTSendStart
    \/ \E q \in Reqs :
        \/ SendCreate(q)
        \/ SendFindMessage(q)
        \/ SendUpdateChat(q)
        \/ SendEmit(q)
        \/ SendEmitFail(q)
        \/ StoreFail(q)
    \/ \E s \in SocketIds :
        \/ Handshake(s)
        \/ OnConnection(s)
        \/ ClientEmit(s)
        \/ OnJoinChat(s)
        \/ OnLeaveChat(s)
        \/ DropEvent(s)
        \/ Disconnect(s)

SpecRT == Init /\ [][NextRT]_vars

\* The read handlers over a store that holds messages not yet read.  Each
\* conversation holds, for each participant, no message or one message
\* sent by that participant and unread by the other; the conversations
\* were last updated in either order.
Senders == <<<<"c1", "A">>, <<"c1", "B">>, <<"c2", "A">>, <<"c2", "X">>>>

StoredMessages(sent) ==
    LET ps == SelectSeq(Senders, LAMBDA p : p \in sent)
    IN  [i \in DOMAIN ps |-> MessageData(ps[i][1], ps[i][2], NoFile, "hi")]

StoredChat(ms, c, stamp) ==
    LET ids == {i \in DOMAIN ms : ms[i].chat = c}
        ps  == InitialChats[c].participants
    IN  [participants |-> ps,
         lastMessage  |-> IF ids = {} THEN NoMsg
                          ELSE CHOOSE i \in ids : \A j \in ids : j <= i,
         unreadCounts |->
             [k \in DOMAIN ps |->
                 [user  |-> ps[k],
                  count |-> Cardinality({i \in ids : ms[i].sender # ps[k]})]],
         updatedAt    |-> stamp]

InitQ ==
    /\ variant \in Variants
    /\ \E sent \in SUBSET Range(Senders), newest \in DOMAIN InitialChats :
         /\ messages = StoredMessages(sent)
         /\ chats = [c \in DOMAIN InitialChats |->
                        StoredChat(StoredMessages(sent), c,
                                   IF c = newest THEN 2 ELSE 1)]
    /\ reqs = EmptyBag
    /\ events = {}
    /\ socks = [s \in SocketIds |-> NoSocket]
    /\ server = ServerUp
    /\ post = NoPost

NextQ ==
    \/ ListStart
    \/ SearchStart
    \/ GetStart
    \/ \E q \in Reqs :
        \/ ListResolve(q)
        \/ SearchResolve(q)
        \/ GetResolve(q)
        \/ QueryFail(q)

SpecQ == InitQ /\ [][NextQ]_vars

\* -------------------------------------------- startServer (server.js)
\* startServer() ran up to its first await: connectWithRetry entered its
\* loop with i = 0 and called mongoose.connect for the first time.
ServerBoot(prod) ==
    [pc |-> "connecting", i |-> 0, attempts |-> 1, retries |-> DefaultRetries,
     readyState |-> 2, returned |-> "none", listening |-> FALSE,
     production |-> prod]

\* mongoose.connect resolves: connectWithRetry returns true, startServer
\* goes on to httpServer.listen
ConnectSucceeds ==
    /\ server.pc = "connecting"
    /\ server' = [server EXCEPT !.pc = "listening", !.readyState = 1,
                                !.returned = "true", !.listening = TRUE]
    /\ UNCHANGED <<post, socks, variant, chats, messages, reqs, events>>

\* mongoose.connect rejects: the catch block logs and awaits the delay
ConnectFails ==
    /\ server.pc = "connecting"
    /\ server' = [server EXCEPT !.pc = "delay", !.readyState = 0]
    /\ UNCHANGED <<post, socks, variant, chats, messages, reqs, events>>

\* the state after the delay when the loop never gives up
AfterDelay_Forever(srv) ==
    [srv EXCEPT !.pc = "connecting", !.attempts = @ + 1, !.readyState = 2]

\* the delay is over: i++ and the loop test.  Either mongoose.connect is
\* called again, or connectWithRetry returns false, startServer throws and
\* its catch block ends the process unless NODE_ENV is production
AfterDelay(srv) ==
    IF srv.i + 1 < srv.retries
    THEN [srv EXCEPT !.i = @ + 1, !.pc = "connecting", !.attempts = @ + 1,
                     !.readyState = 2]
    ELSE [srv EXCEPT !.i = @ + 1, !.returned = "false",
                     !.pc = IF srv.production THEN "idle" ELSE "exited"]

RetryTimer ==
    /\ server.pc = "delay"
    /\ server' = AfterDelay(server)
    /\ UNCHANGED <<post, socks, variant, chats, messages, reqs, events>>

\* the connection to the database is lost while the server listens
DbDisconnected ==
    /\ server.listening /\ server.readyState = 1
    /\ server' = [server EXCEPT !.readyState = 0]
    /\ UNCHANGED <<post, socks, variant, chats, messages, reqs, events>>

\* the driver reconnects
DbReconnected ==
    /\ server.listening /\ server.readyState = 0
    /\ server' = [server EXCEPT !.readyState = 1]
    /\ UNCHANGED <<post, socks, variant, chats, messages, reqs, events>>

\* the requests under /api/chats
GuardedKinds == {"send", "fetch", "list", "search", "get"}

\* a request under /api/chats arrives while the guard does not let it
\* through: the guard answers 503 and next() is not called
GuardReject ==
    /\ server.listening /\ ~Ready(server)
    /\ BagCardinality(reqs) < MaxPub
    /\ \E k \in GuardedKinds :
         reqs' = reqs (+) SetToBag({
                     [Request(k, "A", "c1") EXCEPT
                         !.pc = "done", !.at = "guard", !.status = 503]})
    /\ UNCHANGED <<server, post, socks, variant, chats, messages, events>>

InitSrv ==
    /\ variant \in Variants
    /\ chats = InitialChats
    /\ messages = <<>>
    /\ reqs = EmptyBag
    /\ events = {}
    /\ socks = [s \in SocketIds |-> NoSocket]
    /\ \E prod \in BOOLEAN : server = ServerBoot(prod)
    /\ post = NoPost

\* The server from its start: once it listens, participant A sends text
\* into c1 while the database connection comes and goes.  A store operation
\* issued while the connection is down waits for it, or fails.
NextSrv ==
    \/ ConnectSucceeds
    \/ ConnectFails
    \/ RetryTimer
    \/ DbDisconnected
    \/ DbReconnected
    \/ GuardReject
    \/ RTSendStart
    \/ \E q \in Reqs :
        \/ Ready(server) /\ SendCreate(q)
        \/ Ready(server) /\ SendFindMessage(q)
        \/ Ready(server) /\ SendUpdateChat(q)
        \/ SendEmit(q)
        \/ SendEmitFail(q)
        \/ StoreFail(q)

SpecSrv == InitSrv /\ [][NextSrv]_vars

\* mongoose.connect settles (serverSelectionTimeoutMS) and the timer of the
\* delay fires
SpecSrvLive ==
    /\ SpecSrv
    /\ WF_vars(ConnectSucceeds \/ ConnectFails)
    /\ WF_vars(RetryTimer)

\* ------------------------------------- pre('save') hook (models/Post.js)
\* The two versions of models/Post.js kept in the repository.  text: the
\* post has a text (first version) or a content (second version); media:
\* the number of its media items; calls: the calls of next made so far,
\* "error" for next(new Error(...)) and "ok" for next().
PostVersions == {1, 2}
MediaCounts  == 0..(MediaLimit + 1)

\* post.save() is called: the hook is about to run
SaveCall ==
    /\ post.pc \in {"idle", "settled"}
    /\ \E ver \in PostVersions, txt \in BOOLEAN, m \in MediaCounts :
         post' = [version |-> ver, text |-> txt, media |-> m, pc |-> "empty",
                  calls |-> <<>>, saved |-> FALSE]
    /\ UNCHANGED <<server, socks, variant, chats, messages, reqs, events>>

\* if (!this.text && (!this.media || this.media.length === 0)): the first
\* version returns after next(err), the second goes on
EmptyCheck(p) ==
    IF ~p.text /\ p.media = 0
    THEN [p EXCEPT !.calls = Append(@, "error"),
                   !.pc = IF p.version = 1 THEN "returned" ELSE "limit"]
    ELSE [p EXCEPT !.pc = IF p.version = 1 THEN "tail" ELSE "limit"]

PostEmptyCheck ==
    /\ post.pc = "empty"
    /\ post' = EmptyCheck(post)
    /\ UNCHANGED <<server, socks, variant, chats, messages, reqs, events>>

\* if (this.media && this.media.length > 5) of the second version, which
\* goes on after next(err)
PostLimitCheck ==
    /\ post.pc = "limit"
    /\ post' = [post EXCEPT
                   !.calls = IF post.media > MediaLimit
                             THEN Append(@, "error") ELSE @,
                   !.pc = "tail"]
    /\ UNCHANGED <<server, socks, variant, chats, messages, reqs, events>>

\* the closing next()
PostTail ==
    /\ post.pc = "tail"
    /\ post' = [post EXCEPT !.calls = Append(@, "ok"), !.pc = "returned"]
    /\ UNCHANGED <<server, socks, variant, chats, messages, reqs, events>>

\* What save() does with the calls of next.  One call: the document is
\* written when it carried no error.  next(err) followed by further calls:
\* save() rejects, and the hook runner either ignores the later calls or
\* goes on to write the document, depending on its version.
SaveOutcomes(calls) ==
    IF calls[1] = "ok" THEN {TRUE}
    ELSE IF Len(calls) = 1 THEN {FALSE}
    ELSE BOOLEAN

SaveSettles ==
    /\ post.pc = "returned"
    /\ \E written \in SaveOutcomes(post.calls) :
         post' = [post EXCEPT !.saved = written, !.pc = "settled"]
    /\ UNCHANGED <<server, socks, variant, chats, messages, reqs, events>>

InitPost ==
    /\ variant = "v2"
    /\ chats = InitialChats
    /\ messages = <<>>
    /\ reqs = EmptyBag
    /\ events = {}
    /\ socks = [s \in SocketIds |-> NoSocket]
    /\ server = ServerUp
    /\ post = NoPost

NextPost ==
    \/ SaveCall
    \/ PostEmptyCheck
    \/ PostLimitCheck
    \/ PostTail
    \/ SaveSettles

SpecPost == InitPost /\ [][NextPost]_vars

\* ------------------------------------------------- reading the state
\* the number of invocations (copies counted) among the records of S
CountReqs(S) ==
    Cardinality({x \in S \X (1..MaxReq) : x[2] <= CopiesIn(x[1], reqs)})

\* the send's Chat.updateOne has been applied
Updated(q) ==
    /\ q.kind = "send"
    /\ \/ q.pc = "emit"
       \/ q.pc = "done" /\ q.at = "emit"

\* the fetch's Chat.updateOne (counter reset) has been applied
ResetApplied(q) ==
    /\ q.kind = "fetch"
    /\ \/ q.pc = "respond"
       \/ q.pc = "done" /\ q.at = "respond"

InFlight(q) == q.pc # "done"

\* the handler ended in its catch block
Faulted(q) == q.pc = "done" /\ q.status = 500

StoresUnchanged == UNCHANGED <<chats, messages, events>>

\* this step takes the invocation q to n
Moves(q, n) == q # n /\ reqs' = Replace(q, n)

\* this step is the first of the invocation n
Arrives(n) == reqs' = reqs (+) SetToBag({n})

\* a finished handler does nothing more
DoneIsFinal ==
    \A q \in Reqs : q.pc = "done" => CopiesIn(q, reqs') >= CopiesIn(q, reqs)

\* ---------------------------------------------------------------- C1
\* C1: no unread increment is lost or misdirected.  For every conversation
\* c and participant p that has not had a counter reset applied, p's unread
\* counter equals the number of sends into c by other users whose
\* conversation update was applied, whatever the interleaving; the sender's
\* own sends are not counted; every send answered 201 had its update
\* applied (so N successful sends by others and nothing else raise the
\* counter by exactly N).
C1_NoLostIncrement ==
    /\ \A q \in Reqs : q.status = 201 => Updated(q)
    /\ \A c \in DOMAIN chats : \A p \in Range(chats[c].participants) :
         (~\E q \in Reqs : ResetApplied(q) /\ q.chat = c /\ q.user = p)
         => UnreadCount(chats[c], p) =
              CountReqs({q \in Reqs : Updated(q) /\ q.chat = c /\ q.user # p})

\* two sends by A into c1 are both past their conversation update and not
\* yet answered: B's counter is 2, A's is 0
C1_Witness ==
    /\ \E q, n \in Reqs :
         /\ q # n
         /\ \A x \in {q, n} : /\ x.kind = "send" /\ x.pc = "emit"
                              /\ x.user = "A" /\ x.chat = "c1"
    /\ UnreadCount(chats["c1"], "B") = 2
    /\ UnreadCount(chats["c1"], "A") = 0

\* ---------------------------------------------------------------- C2
\* C2 (as claimed, for runs in which no handler ended in its catch block):
\* whenever no request on conversation c is in flight, every participant's
\* unread counter equals the number of messages of c sent by others that
\* the participant has not read.
C2_CounterEqualsUnreadMessages ==
    \A c \in DOMAIN chats :
        (/\ \A q \in Reqs : ~Faulted(q)
         /\ \A q \in Reqs : q.chat = c => ~InFlight(q))
        => \A p \in Range(chats[c].participants) :
             UnreadCount(chats[c], p) =
               Cardinality({i \in MessagesOf(c) : /\ messages[i].sender # p
                                                  /\ p \notin Range(messages[i].readBy)})

\* ---------------------------------------------------------------- C3
\* C3: the counter reset of a history fetch by u on c sets u's counter of c
\* to 0 and changes no other counter of c, no counter of another
\* conversation, and no participant list or last-message pointer.
C3_ResetStep(q) ==
    \A c \in DOMAIN chats :
        /\ chats'[c].participants = chats[c].participants
        /\ chats'[c].lastMessage = chats[c].lastMessage
        /\ DOMAIN chats'[c].unreadCounts = DOMAIN chats[c].unreadCounts
        /\ \A i \in DOMAIN chats[c].unreadCounts :
             /\ chats'[c].unreadCounts[i].user = chats[c].unreadCounts[i].user
             /\ chats'[c].unreadCounts[i].count =
                  IF c = q.chat /\ chats[c].unreadCounts[i].user = q.user
                  THEN 0
                  ELSE chats[c].unreadCounts[i].count

C3_FetchResetsOnlyOwnCounter ==
    [][\A q \in Reqs :
          (q.pc = "reset" /\ Moves(q, [q EXCEPT !.pc = "respond"]))
          => C3_ResetStep(q)]_vars

\* B's reset has been applied after A's send raised B's counter
C3_Witness ==
    \E q, n \in Reqs :
        /\ q.kind = "fetch" /\ q.pc = "respond"
        /\ q.user = "B" /\ q.chat = "c1"
        /\ Updated(n) /\ n.user = "A" /\ n.chat = "c1"
        /\ UnreadCount(chats["c1"], "B") = 0

\* ---------------------------------------------------------------- C4
\* C4 (as claimed): in the response of a history fetch by u, every returned
\* message sent by another user carries u in its readBy, and u's counter
\* is 0 once the fetch has answered.
C4_ResponseShowsReadReceipt ==
    \A q \in Reqs :
        (q.kind = "fetch" /\ q.pc = "done" /\ q.status = 200)
        => /\ \A i \in DOMAIN q.result :
                messages[i].sender # q.user => q.user \in Range(q.result[i])
           /\ ((\A n \in Reqs : ~InFlight(n))
               => UnreadCount(chats[q.chat], q.user) = 0)

\* ---------------------------------------------------------------- C5
\* C5: every send whose Message.create resolved holds exactly one stored
\* message, whose sender is the caller and whose conversation is the
\* addressed one; a send that is not that far holds none; no two sends
\* share a message and no message is stored without its send; and the step
\* that applies a send's conversation update leaves the conversation's
\* lastMessage equal to that send's message id.
PastCreate(q) ==
    /\ q.kind = "send"
    /\ \/ q.pc \in {"findmsg", "update", "emit"}
       \/ q.pc = "done" /\ q.at \in {"findmsg", "update", "emit"}

C5_OneMessagePerSend ==
    /\ \A q \in Reqs :
         IF PastCreate(q)
         THEN /\ q.msg \in DOMAIN messages
              /\ messages[q.msg].sender = q.user
              /\ messages[q.msg].chat = q.chat
              /\ CopiesIn(q, reqs) = 1
         ELSE q.msg = NoMsg
    /\ \A q, n \in Reqs : (PastCreate(q) /\ PastCreate(n) /\ q # n)
                          => q.msg # n.msg
    /\ Len(messages) = CountReqs({q \in Reqs : PastCreate(q)})

C5_UpdateStep ==
    \A q \in Reqs :
        (q.pc = "update" /\ Moves(q, [q EXCEPT !.pc = "emit"]))
        => chats'[q.chat].lastMessage = q.msg

C5_SendPersistsOneAndPoints ==
    []C5_OneMessagePerSend /\ [][C5_UpdateStep]_vars

\* two sends into c1 were answered 201; the pointer is on one of their
\* messages
C5_Witness ==
    \E q, n \in Reqs :
        /\ q # n
        /\ \A x \in {q, n} : x.kind = "send" /\ x.status = 201 /\ x.chat = "c1"
        /\ Len(messages) = 2
        /\ chats["c1"].lastMessage \in {q.msg, n.msg}

\* ---------------------------------------------------------------- C6
\* C6: a send by a user who is not a participant of the (existing)
\* conversation is answered 403 at the check, in the step in which the
\* lookup resolved: no message, no counter, no lastMessage pointer and no
\* published event changes, and the handler does nothing afterwards.
NonParticipantSend(n) ==
    /\ Arrives(n)
    /\ n.kind = "send"
    /\ n.at # "lookup"
    /\ n.chat \in DOMAIN chats
    /\ n.user \notin Range(chats[n.chat].participants)

C6_NonParticipantSendRefused ==
    [][/\ DoneIsFinal
       /\ \A n \in BagToSet(reqs') :
            NonParticipantSend(n)
            => /\ n.pc = "done" /\ n.status = 403
               /\ n.msg = NoMsg
               /\ StoresUnchanged]_vars

\* X was refused on c1 while a message of c1 is stored
C6_Witness ==
    \E q \in Reqs :
        /\ q.kind = "send" /\ q.user = "X" /\ q.chat = "c1"
        /\ q.pc = "done" /\ q.status = 403
        /\ MessagesOf("c1") # {}
        /\ \A i \in DOMAIN messages : messages[i].sender # "X"

\* ---------------------------------------------------------------- C7
\* C7 (as claimed, for both versions of the handler): a send with neither
\* content nor a file is answered 400 and changes no store: the handler
\* that holds such a request answers 400 when it leaves Message.create,
\* and a request answered 400 at the checks changed nothing.
EmptyBody(q) == q.data.type = "text" /\ q.data.content = NoContent

C7_EmptySendIs400 ==
    [][/\ \A q \in Reqs : \A n \in BagToSet(reqs') :
            (q.pc = "create" /\ EmptyBody(q) /\ Moves(q, n))
            => (n.status = 400 /\ StoresUnchanged)
       /\ \A n \in BagToSet(reqs') :
            (Arrives(n) /\ n.kind = "send" /\ n.status = 400)
            => StoresUnchanged]_vars

\* ---------------------------------------------------------------- C8
\* C8: a send or a history fetch addressed to an id that names no stored
\* conversation is answered 404 at the checks, whoever the caller is, in
\* the step in which the lookup resolved, and changes no message, counter,
\* lastMessage pointer or published event.
UnknownChatRequest(n) ==
    /\ Arrives(n)
    /\ n.at # "lookup"
    /\ n.chat \notin DOMAIN chats

C8_UnknownChatIs404 ==
    [][/\ DoneIsFinal
       /\ \A n \in BagToSet(reqs') :
            UnknownChatRequest(n)
            => /\ n.pc = "done" /\ n.status = 404
               /\ n.at = "check"
               /\ n.msg = NoMsg /\ n.result = <<>>
               /\ StoresUnchanged]_vars

\* a send and a history fetch on the unknown id were both answered 404
C8_Witness ==
    \E q, n \in Reqs :
        /\ q.kind = "send" /\ q.chat = "c9" /\ q.status = 404
        /\ n.kind = "fetch" /\ n.chat = "c9" /\ n.status = 404

\* ---------------------------------------------------------------- C9
\* C9: when Message.create rejects, the handler answers with an error
\* status and holds no message; in that step no message is stored, no
\* counter and no lastMessage pointer changes and nothing is published, and
\* the handler does nothing afterwards.
C9_CreateFailureLeavesNothing ==
    [][/\ DoneIsFinal
       /\ \A q \in Reqs : \A n \in BagToSet(reqs') :
            (q.pc = "create" /\ n.pc = "done" /\ Moves(q, n))
            => /\ n.status \in {400, 500}
               /\ n.msg = NoMsg
               /\ StoresUnchanged]_vars

\* A's send into c1 failed at Message.create while B's send got through
C9_Witness ==
    \E q, n \in Reqs :
        /\ q.kind = "send" /\ q.pc = "done" /\ q.at = "create"
        /\ q.user = "A" /\ q.chat = "c1" /\ q.status = 500
        /\ n.kind = "send" /\ n.status = 201
        /\ n.user = "B" /\ n.chat = "c1"
        /\ Len(messages) = 1
        /\ UnreadCount(chats["c1"], "B") = 0

\* --------------------------------------------------------------- C10
\* C10: a send whose conversation update rejected has answered 500, its
\* message is still stored (sender and conversation as sent), and no event
\* carrying that message was published.
C10_UpdateFailureKeepsMessage ==
    \A q \in Reqs :
        (q.kind = "send" /\ q.pc = "done" /\ q.at = "update")
        => /\ q.status = 500
           /\ q.msg \in DOMAIN messages
           /\ messages[q.msg].sender = q.user
           /\ messages[q.msg].chat = q.chat
           /\ \A e \in events : e.msg # q.msg

\* A's send failed at the conversation update: the message is stored, the
\* pointer and B's counter are untouched
C10_Witness ==
    \E q \in Reqs :
        /\ q.kind = "send" /\ q.pc = "done" /\ q.at = "update"
        /\ q.user = "A" /\ q.chat = "c1"
        /\ q.msg \in DOMAIN messages
        /\ chats["c1"].lastMessage = NoMsg
        /\ UnreadCount(chats["c1"], "B") = 0

\* --------------------------------------------------------------- C11
\* C11 (as claimed): the answer to a send whose message was persisted but
\* whose propagation (reading the message back, updating the conversation)
\* failed differs from the answer to a send that failed before anything
\* was persisted.
C11_PartialFailureDistinct ==
    \A q, n \in Reqs :
        (/\ q.kind = "send" /\ q.pc = "done" /\ q.at = "create"
         /\ n.kind = "send" /\ n.pc = "done" /\ n.at \in {"findmsg", "update"})
        => n.status # q.status

\* --------------------------------------------------------------- C12
\* C12 (as claimed): a send whose message was persisted and whose
\* conversation update was applied is answered 201, whether or not the
\* emit to the room succeeded.
C12_PublishFailureStill201 ==
    \A q \in Reqs :
        (q.kind = "send" /\ q.pc = "done" /\ q.at = "emit") => q.status = 201

\* --------------------------------------------------------------- C13
\* this step is the emit of the send q, answered 201
Publishes(q) ==
    q.kind = "send" /\ q.pc = "emit" /\ Moves(q, Answered(q, 201))

\* C13: in the step in which a successful send into conversation c
\* publishes its message, every connection that is in room c before the
\* step receives one 'message' event carrying that message, and every
\* other connection receives nothing; no other step delivers anything.
C13_PublishStep ==
    /\ \A q \in Reqs :
         Publishes(q) =>
            \A s \in SocketIds :
               socks'[s].received =
                  IF q.chat \in socks[s].rooms
                  THEN Append(socks[s].received, q.msg)
                  ELSE socks[s].received
    /\ (\A q \in Reqs : ~Publishes(q)) =>
            \A s \in SocketIds : socks'[s].received = socks[s].received

C13_RoomReceivesExactlyOnce == [][C13_PublishStep]_vars

\* a send into c1 was answered 201 while connection 1 was in room c1 and
\* connection 2 was connected and in room c2 only: 1 got the message, 2
\* got nothing
C13_Witness ==
    /\ \E q \in Reqs : q.kind = "send" /\ q.chat = "c1" /\ q.status = 201
    /\ socks[1].rooms = {"c1"} /\ socks[1].received = <<1>>
    /\ socks[2].state = "connected" /\ socks[2].rooms = {"c2"}
    /\ socks[2].received = <<>>

\* --------------------------------------------------------------- C14
\* the connection attempt carried no token or one that does not verify
Unverified(k) == k.token = NoToken \/ JwtVerify(k.token) = NoUser

\* C14: a connection attempt with no token or with a token that fails
\* verification is rejected by the handshake middleware: it never has a
\* listener registered, is never in a room and never receives a message
\* event.  Only connections whose token verified have listeners, and they
\* carry the verified user id.
C14_UnverifiedNeverConnected ==
    \A s \in SocketIds :
        /\ (socks[s].state # "none" /\ Unverified(socks[s]))
           => /\ socks[s].state = "rejected"
              /\ socks[s].handlers = {}
              /\ socks[s].rooms = {}
              /\ socks[s].received = <<>>
        /\ socks[s].handlers # {}
           => /\ ~Unverified(socks[s])
              /\ socks[s].userId = JwtVerify(socks[s].token)
              /\ {"join-chat", "leave-chat"} \subseteq socks[s].handlers

\* connection 1 came with a forged token and its client has emitted
\* 'join-chat' for c1; connection 2 verified, joined c1 and received the
\* message A sent there
C14_Witness ==
    /\ socks[1].token = "forged" /\ socks[1].state = "rejected"
    /\ socks[1].pending = <<"join-chat", "c1">>
    /\ socks[2].state = "connected" /\ socks[2].rooms = {"c1"}
    /\ socks[2].received = <<1>>

\* --------------------------------------------------------------- C15
\* this step runs the listener of connection s for its pending event
Handles(s, ev) ==
    /\ socks[s].pending # NoEvent
    /\ socks[s].pending[1] = ev
    /\ ev \in socks[s].handlers
    /\ socks'[s].pending = NoEvent
    /\ socks'[s].state # "disconnected"

\* a join of a room the connection is in, and a leave of a room it is not
\* in, leave the connection as it was but for the consumed event
C15_RoomStep ==
    \A s \in SocketIds :
        /\ (Handles(s, "join-chat") /\ socks[s].pending[2] \in socks[s].rooms)
           => socks'[s] = [socks[s] EXCEPT !.pending = NoEvent]
        /\ (Handles(s, "leave-chat") /\ socks[s].pending[2] \notin socks[s].rooms)
           => socks'[s] = [socks[s] EXCEPT !.pending = NoEvent]

\* C15: join and leave are idempotent.  Joining a room the connection is
\* already in and leaving a room it is not in change neither its rooms nor
\* its state (no error, still connected), and no connection ever holds the
\* same message event twice.
C15_JoinLeaveIdempotent ==
    /\ [](\A s \in SocketIds :
             \A i, j \in DOMAIN socks[s].received :
                socks[s].received[i] = socks[s].received[j] => i = j)
    /\ [][C15_RoomStep]_vars

\* connection 1 is in room c1 and its client has emitted 'join-chat' for
\* c1 again, while a send into c1 is about to publish
C15_Witness ==
    /\ socks[1].rooms = {"c1"}
    /\ socks[1].pending = <<"join-chat", "c1">>
    /\ \E q \in Reqs : q.kind = "send" /\ q.chat = "c1" /\ q.pc = "emit"

\* --------------------------------------------------------------- C28
\* the user of connection s is not a participant of conversation c
Outsider(s, c) == ~IsParticipant(FindChatById(c), socks[s].userId)

\* C28: join-chat checks no participation.  The listener of any connected
\* socket adds the socket to the room asked for, also when the socket's
\* user is not a participant of that conversation, and a socket that is in
\* the room of a conversation its user does not take part in receives the
\* message of every send published to it.
C28_JoinStep ==
    \A s \in SocketIds :
        /\ Handles(s, "join-chat")
           => socks'[s].rooms = socks[s].rooms \cup {socks[s].pending[2]}
        /\ \A q \in Reqs :
             (Publishes(q) /\ q.chat \in socks[s].rooms /\ Outsider(s, q.chat))
             => socks'[s].received = Append(socks[s].received, q.msg)

C28_JoinHasNoParticipantCheck == [][C28_JoinStep]_vars

\* the connection of X, who takes no part in c1, is in room c1 and has
\* received the message A sent there
C28_Witness ==
    /\ socks[1].userId = "X" /\ "X" \notin Range(chats["c1"].participants)
    /\ "c1" \in socks[1].rooms
    /\ socks[1].received = <<1>>
    /\ messages[1].chat = "c1"

\* --------------------------------------------------------------- C16
\* this step is the mark-read update of the fetch q
Marks(q) ==
    q.kind = "fetch" /\ q.pc = "mark" /\ Moves(q, [q EXCEPT !.pc = "reset"])

\* on the store a fetch is about to mark, for every conversation c and
\* reader u, the update applied twice gives what it gives applied once;
\* and applying the fetch's own update again to the store it left changes
\* nothing
C16_MarkStep ==
    \A q \in Reqs :
        Marks(q) =>
            /\ \A c \in ChatIds, u \in Users :
                  LET once == MarkReadByOthers(messages, c, u)
                  IN  MarkReadByOthers(once, c, u) = once
            /\ messages' = MarkReadByOthers(messages, q.chat, q.user)
            /\ MarkReadByOthers(messages', q.chat, q.user) = messages'

\* C16: the mark-read step is idempotent.  Whenever a history fetch applies
\* its mark-read update, applying the update twice in a row (with no send
\* in between) gives every message the same readBy as applying it once,
\* for every conversation and reader.
C16_MarkReadIdempotent == [][C16_MarkStep]_vars

\* B's fetch of c1 has just applied its mark-read update to a message sent
\* by A: the store it would be applied to again holds B as a reader
C16_Witness ==
    /\ \E i \in MessagesOf("c1") :
         messages[i].sender = "A" /\ messages[i].readBy = <<"A", "B">>
    /\ \E q \in Reqs : /\ q.kind = "fetch" /\ q.user = "B" /\ q.chat = "c1"
                       /\ q.pc = "reset"

\* --------------------------------------------------------------- C17
\* C17: readBy only grows and a persisted message is otherwise immutable.
\* In every step, every stored message is still stored under the same id
\* with the same conversation, sender, kind, content and media reference,
\* and every user in its readBy before the step is in its readBy after it.
C17_MessageStep ==
    \A i \in DOMAIN messages :
        /\ i \in DOMAIN messages'
        /\ messages'[i].chat = messages[i].chat
        /\ messages'[i].sender = messages[i].sender
        /\ messages'[i].type = messages[i].type
        /\ messages'[i].content = messages[i].content
        /\ messages'[i].mediaUrl = messages[i].mediaUrl
        /\ Range(messages[i].readBy) \subseteq Range(messages'[i].readBy)

C17_ReadByOnlyGrows == [][C17_MessageStep]_vars

\* X's fetch of c2 has been answered and the message A sent there has
\* gained X as a reader
C17_Witness ==
    /\ \E i \in MessagesOf("c2") :
         messages[i].sender = "A" /\ messages[i].readBy = <<"A", "X">>
    /\ \E q \in Reqs : /\ q.kind = "fetch" /\ q.user = "X" /\ q.chat = "c2"
                       /\ q.status = 200

\* --------------------------------------------------------------- C18
\* the step stores a message: its readBy is exactly its sender
C18_CreateStep ==
    \A i \in DOMAIN messages' \ DOMAIN messages :
        messages'[i].readBy = <<messages'[i].sender>>

\* the step is the mark-read update of a fetch by u: the messages u sent
\* are left as they were
C18_MarkStep ==
    \A q \in Reqs :
        (q.kind = "fetch" /\ q.pc = "mark" /\ Moves(q, [q EXCEPT !.pc = "reset"]))
        => \A i \in DOMAIN messages :
             messages[i].sender = q.user => messages'[i] = messages[i]

\* C18: in every reachable state every stored message's readBy contains its
\* sender; the message a send stores has readBy = [sender] and nothing
\* else; the mark-read update of a fetch by u changes no message sent by u.
C18_SenderHasRead ==
    /\ [](\A i \in DOMAIN messages :
             messages[i].sender \in Range(messages[i].readBy))
    /\ [][C18_CreateStep /\ C18_MarkStep]_vars

\* A's fetch of c1 has applied its mark-read update while c1 holds a
\* message sent by A, still read by A alone
C18_Witness ==
    /\ \E i \in MessagesOf("c1") :
         messages[i].sender = "A" /\ messages[i].readBy = <<"A">>
    /\ \E q \in Reqs : /\ q.kind = "fetch" /\ q.user = "A" /\ q.chat = "c1"
                       /\ q.pc = "reset"

\* --------------------------------------------------------------- C19
\* the document carries content and no media reference when its kind is
\* text, a media reference and no content when its kind is image or video
C19_Payload(d) ==
    /\ d.type \in {"text", "image", "video"}
    /\ d.type = "text" => d.content # NoContent /\ d.mediaUrl = NoMedia
    /\ d.type # "text" => d.mediaUrl # NoMedia /\ d.content = NoContent

\* C19: every persisted message carries exactly one of text content or a
\* media reference, matching its kind; the kind the handler gives a message
\* is text exactly when no file was uploaded, and content sent along with a
\* file is not stored.
C19_ExactlyOnePayload ==
    /\ \A c \in ChatIds, u \in Users, f \in Files, t \in Contents :
         LET d == MessageData(c, u, f, t)
         IN  /\ d.type = "text" <=> f = NoFile
             /\ f = NoFile => d.content = t /\ d.mediaUrl = NoMedia
             /\ f # NoFile => d.content = NoContent /\ d.mediaUrl # NoMedia
    /\ [](\A i \in DOMAIN messages : C19_Payload(messages[i]))

\* a text message and an image message are both stored
C19_Witness ==
    /\ \E i \in DOMAIN messages :
         messages[i].type = "text" /\ messages[i].content = "hi"
    /\ \E i \in DOMAIN messages :
         messages[i].type = "image" /\ messages[i].mediaUrl # NoMedia

\* --------------------------------------------------------------- C20
\* the users of the unreadCounts entries, in order
UnreadKeys(chat) ==
    [i \in DOMAIN chat.unreadCounts |-> chat.unreadCounts[i].user]

\* each conversation has the participants it was created with and exactly
\* one unreadCounts entry per participant, in the order of the
\* participants, each with a non-negative integer count
C20_ChatShape ==
    /\ DOMAIN chats = DOMAIN InitialChats
    /\ \A c \in DOMAIN chats :
         /\ chats[c].participants = InitialChats[c].participants
         /\ UnreadKeys(chats[c]) = chats[c].participants
         /\ \A i \in DOMAIN chats[c].unreadCounts :
                chats[c].unreadCounts[i].count \in Nat

\* the step leaves the conversations, their participants and the keys of
\* their unreadCounts as they were
C20_KeysStep ==
    /\ DOMAIN chats' = DOMAIN chats
    /\ \A c \in DOMAIN chats :
         /\ chats'[c].participants = chats[c].participants
         /\ UnreadKeys(chats'[c]) = UnreadKeys(chats[c])

\* C20: no step of a send or of a history fetch changes which
\* conversations exist, a conversation's participants, or the keys of its
\* unreadCounts; in every reachable state every unreadCounts key is a
\* participant, no participant has two entries, and every count is a
\* non-negative integer.
C20_UnreadKeysAreParticipants == []C20_ChatShape /\ [][C20_KeysStep]_vars

\* a send by B into c1 has raised A's counter and a fetch of c1 by B has
\* applied its reset
C20_Witness ==
    /\ chats["c1"].unreadCounts =
           <<[user |-> "A", count |-> 1], [user |-> "B", count |-> 0]>>
    /\ \E q \in Reqs : /\ q.kind = "fetch" /\ q.user = "B" /\ q.chat = "c1"
                       /\ q.pc = "respond"

\* --------------------------------------------------------------- C21
\* the ids of the conversations of a response, in order
Ids(res) == [i \in DOMAIN res |-> res[i].id]

\* C21 (as claimed): a search by u with query q that is answered 200
\* returns exactly the conversations u takes part in that have a
\* participant other than u whose username or email contains q, letter
\* case aside.
C21_SearchMatchesOthers ==
    \A q \in Reqs :
        (q.kind = "search" /\ q.status = 200)
        => Range(Ids(q.result)) =
             {c \in DOMAIN chats :
                /\ q.user \in Range(chats[c].participants)
                /\ \E p \in Range(chats[c].participants) \ {q.user} :
                      \/ IsSubstring(LowerSeq(q.query), LowerSeq(Username(p)))
                      \/ IsSubstring(LowerSeq(q.query), LowerSeq(Email(p)))}

\* --------------------------------------------------------------- C22
\* a conversation document in which u has no unread entry
NoEntryFor(u) ==
    UNION {{[NewChat(<<u, p>>) EXCEPT !.unreadCounts = ent] :
               ent \in {<<>>, <<[user |-> p, count |-> 1]>>}} :
           p \in Users \ {u}}

\* the list answered to u holds exactly u's conversations, once each,
\* newest first, each with the count of u's own unread entry
C22_ListIsOwn ==
    \A q \in Reqs :
        (q.kind = "list" /\ q.status = 200)
        => /\ Range(Ids(q.result)) =
                {c \in DOMAIN chats : q.user \in Range(chats[c].participants)}
           /\ \A i, j \in DOMAIN q.result :
                i < j => chats[q.result[i].id].updatedAt
                            > chats[q.result[j].id].updatedAt
           /\ \A i \in DOMAIN q.result :
                \E k \in DOMAIN chats[q.result[i].id].unreadCounts :
                   /\ chats[q.result[i].id].unreadCounts[k].user = q.user
                   /\ chats[q.result[i].id].unreadCounts[k].count
                         = q.result[i].unreadCount

\* the steps of GET / write nothing
C22_ListStep ==
    \A n \in BagToSet(reqs') :
        (n.kind = "list" /\ CopiesIn(n, reqs') > CopiesIn(n, reqs))
        => UNCHANGED <<chats, messages, events, socks>>

\* C22: listing for u returns exactly the conversations whose participants
\* include u, ordered by updatedAt descending, each with unreadCount equal
\* to u's own unreadCounts entry, and 0 for a document in which u has no
\* entry; it changes no state.
C22_ListForUser ==
    /\ \A u \in Users : \A chat \in NoEntryFor(u) : UnreadCount(chat, u) = 0
    /\ []C22_ListIsOwn
    /\ [][C22_ListStep]_vars

\* A was answered its two conversations, c2 first; in c1 A has no unread
\* message while B has one, and the list reports A's 0
C22_Witness ==
    \E q \in Reqs :
        /\ q.kind = "list" /\ q.user = "A" /\ q.status = 200
        /\ q.result = <<[id |-> "c2", unreadCount |-> 1],
                        [id |-> "c1", unreadCount |-> 0]>>
        /\ UnreadCount(chats["c1"], "B") = 1

\* --------------------------------------------------------------- C23
\* C23 (as claimed): GET /:id, once its lookup resolved, answers 404 when
\* no conversation has the id of the request path, 403 when the caller is
\* not a participant of that conversation, and otherwise 200 with that
\* conversation, in every version of the handler.
C23_GetByPathId ==
    \A q \in Reqs :
        (q.kind = "get" /\ q.pc = "done" /\ q.status # 500)
        => IF q.chat \notin DOMAIN chats THEN q.status = 404
           ELSE IF q.user \notin Range(chats[q.chat].participants)
                THEN q.status = 403
                ELSE q.status = 200 /\ q.result = <<q.chat>>

\* --------------------------------------------------------------- C25
\* C25 (as claimed): when two sends into the same conversation have both
\* been answered 201, the conversation's lastMessage is the message that
\* was persisted last of the two (message ids are given in the order of
\* persistence), never the one persisted first.
C25_LastPersistedWins ==
    \A q, n \in Reqs :
        (/\ q.kind = "send" /\ n.kind = "send" /\ q.chat = n.chat
         /\ q.status = 201 /\ n.status = 201 /\ q.msg < n.msg)
        => chats[q.chat].lastMessage = n.msg

\* --------------------------------------------------------------- C26
\* the event a send publishes
EventOf(q) == [room |-> q.chat, msg |-> q.msg]

\* every step of a send is one of: persist the message; read it back;
\* update the conversation; publish and answer 201; or answer with an
\* error, leaving messages, conversations, events and sockets alone
C26_PhaseStep ==
    \A q \in Reqs : \A n \in BagToSet(reqs') :
        (q.kind = "send" /\ Moves(q, n))
        => \/ /\ q.pc = "create" /\ n.pc = "findmsg"
              /\ Len(messages') = Len(messages) + 1
              /\ n.msg = Len(messages')
              /\ UNCHANGED <<chats, events, socks>>
           \/ /\ q.pc = "findmsg" /\ n.pc = "update"
              /\ q.msg \in DOMAIN messages
              /\ UNCHANGED <<chats, messages, events, socks>>
           \/ /\ q.pc = "update" /\ n.pc = "emit"
              /\ q.msg \in DOMAIN messages
              /\ chats'[q.chat].lastMessage = q.msg
              /\ UNCHANGED <<messages, events, socks>>
           \/ /\ q.pc = "emit" /\ n.pc = "done" /\ n.status = 201
              /\ events' = events \cup {EventOf(q)}
              /\ UNCHANGED <<chats, messages>>
           \/ /\ n.pc = "done" /\ n.status \in {400, 500}
              /\ UNCHANGED <<chats, messages, events, socks>>

\* a send starts at Message.create or is answered by a check, and nothing
\* is written in that step
C26_ArrivalStep ==
    \A n \in BagToSet(reqs') :
        (n.kind = "send" /\ Arrives(n))
        => /\ \/ n.pc = "create"
              \/ n.pc = "done" /\ n.status \in {400, 403, 404, 500}
           /\ UNCHANGED <<chats, messages, events, socks>>

\* the events published are exactly those of the sends answered 201, each
\* for a stored message
C26_EventsOfDelivered ==
    /\ \A e \in events :
         /\ e.msg \in DOMAIN messages
         /\ \E q \in Reqs : q.kind = "send" /\ q.status = 201 /\ EventOf(q) = e
    /\ \A q \in Reqs :
         (q.kind = "send" /\ q.status = 201) => EventOf(q) \in events

\* C26: a send goes through its phases in order.  The message event is
\* published only in the step that follows the conversation update, which
\* follows the read-back, which follows the persisting of the message; the
\* 201 is answered in the publishing step; a send answered 400, 403, 404
\* or 500 has published nothing.
C26_PhasesInOrder ==
    /\ []C26_EventsOfDelivered
    /\ [][C26_PhaseStep /\ C26_ArrivalStep]_vars

\* one send into c1 was answered 201 and its event published; another
\* failed at its conversation update: its message is stored and no event
\* names it
C26_Witness ==
    \E q, n \in Reqs :
        /\ q.kind = "send" /\ q.status = 201 /\ EventOf(q) \in events
        /\ n.kind = "send" /\ n.pc = "done" /\ n.at = "update"
        /\ n.msg \in DOMAIN messages
        /\ EventOf(n) \notin events

\* --------------------------------------------------------------- C27
NonParticipantFetch(n) ==
    /\ Arrives(n)
    /\ n.kind = "fetch"
    /\ n.at # "lookup"
    /\ n.chat \in DOMAIN chats
    /\ n.user \notin Range(chats[n.chat].participants)

\* C27: a history fetch by a user who is not a participant of the
\* (existing) conversation is answered 403 in the step in which the lookup
\* resolved, with no documents; no message, counter or event changes, the
\* handler does nothing afterwards, and no message is ever read by a user
\* outside its conversation.
C27_NonParticipantFetchRefused ==
    /\ [](\A i \in DOMAIN messages :
             Range(messages[i].readBy)
                \subseteq Range(chats[messages[i].chat].participants))
    /\ [][/\ DoneIsFinal
          /\ \A n \in BagToSet(reqs') :
               NonParticipantFetch(n)
               => /\ n.pc = "done" /\ n.status = 403
                  /\ n.result = <<>>
                  /\ StoresUnchanged]_vars

\* X was refused the history of c1 while c1 holds a message of A that B
\* has not read: B's counter is still 1 and the message is read by A alone
C27_Witness ==
    /\ \E q \in Reqs : /\ q.kind = "fetch" /\ q.user = "X" /\ q.chat = "c1"
                       /\ q.pc = "done" /\ q.status = 403
    /\ UnreadCount(chats["c1"], "B") = 1
    /\ \E i \in MessagesOf("c1") : messages[i].readBy = <<"A">>

\* --------------------------------------------------------------- C24
\* C24: while the database is not connected, every request under
\* /api/chats is answered 503 by the guard and the route handler is not
\* entered: the request is over in the step in which it arrived, it
\* created no message, and no conversation, message, event or room
\* delivery changes in that step; a request answered by the guard stays
\* as it is.  No request arrives before the server listens.
C24_GuardStep ==
    /\ DoneIsFinal
    /\ \A n \in BagToSet(reqs') :
         Arrives(n)
         => /\ server.listening
            /\ server.readyState # 1
               => /\ n.pc = "done" /\ n.status = 503 /\ n.at = "guard"
                  /\ n.msg = NoMsg
                  /\ UNCHANGED <<chats, messages, events, socks>>

C24_NotConnectedMeans503 ==
    /\ [](\A q \in Reqs :
             q.at = "guard"
             => q.pc = "done" /\ q.status = 503 /\ q.msg = NoMsg)
    /\ [][C24_GuardStep]_vars

\* the connection was lost while the server listened: A's send was
\* answered 503 by the guard, and no message or event exists
C24_Witness ==
    /\ server.listening /\ server.readyState = 0
    /\ \E q \in Reqs : /\ q.kind = "send" /\ q.at = "guard"
                       /\ q.status = 503
    /\ Len(messages) = 0
    /\ events = {}

\* --------------------------------------------------------------- C29
\* C29: connectWithRetry terminates after at most `retries` (5) calls of
\* mongoose.connect.  It returns true in the step in which an attempt
\* succeeded and false only after `retries` failed attempts; no attempt is
\* made after it returned; the HTTP server listens only after it returned
\* true, and never after it returned false.
C29_Bounded ==
    /\ server.retries = DefaultRetries
    /\ server.attempts <= server.retries
    /\ server.listening => server.returned = "true"
    /\ server.returned = "false"
       => server.attempts = server.retries /\ ~server.listening

C29_Step ==
    /\ server.returned # "none"
       => /\ server'.attempts = server.attempts
          /\ server'.returned = server.returned
    /\ server.pc = "connecting" /\ server'.readyState = 1
       => server'.returned = "true" /\ server'.listening
    /\ server.returned = "none" /\ server'.returned = "true"
       => server.pc = "connecting" /\ server'.readyState = 1
    /\ server'.attempts \in {server.attempts, server.attempts + 1}

C29_ConnectTerminates ==
    /\ []C29_Bounded
    /\ [][C29_Step]_vars
    /\ <>(server.returned # "none")

\* all five attempts failed: connectWithRetry returned false and the
\* server does not listen
C29_Witness ==
    /\ server.returned = "false"
    /\ server.attempts = DefaultRetries
    /\ ~server.listening

\* --------------------------------------------------------------- C30
\* C30: the pre-save hook calls next exactly once on every path: with an
\* error when the post has neither text nor media or, in the second
\* version, more than 5 media items, and without an error otherwise; an
\* invalid post is never saved.
PostInvalid(p) ==
    \/ ~p.text /\ p.media = 0
    \/ p.version = 2 /\ p.media > MediaLimit

C30_NextCalledOnce ==
    /\ post.pc \in {"returned", "settled"}
       => post.calls = IF PostInvalid(post) THEN <<"error">> ELSE <<"ok">>
    /\ post.saved => ~PostInvalid(post)

====
